---- MODULE Spec2Model ----
(***************************************************************************)
(* Model of natrium's EdDSA wrapper (signature.go): the package-level      *)
(* length variables, the package init function, and the four operations    *)
(* EdDSAGenerateKey, EdDSAPrivate.PublicKey, EdDSAPrivate.Sign and          *)
(* EdDSAPublic.Verify, each split at the points where it touches memory:   *)
(* entry/allocation, the cgo call, and the return.                         *)
(*                                                                         *)
(* The libsodium primitives are outside the package; they are modelled by  *)
(* a small deterministic stand-in scheme over byte sequences that keeps    *)
(* libsodium's layout (secret key = seed ++ public key, signature = R ++   *)
(* S) and the property that a signature verifies exactly under the public  *)
(* key of the signing seed and the signed message.                         *)
(***************************************************************************)
EXTENDS Integers, Sequences, FiniteSets, TLC

\* ------------------------------------------------------------------ bounds
\* number of distinct key pairs the random generator can produce
NumKeys == 2
\* longest message the callers pass
MaxMsgLen == 1
\* number of concurrent callers in ConcSpec
NumCallers == 2

\* ------------------------------------------------- libsodium's constants
crypto_sign_SECRETKEYBYTES == 64
crypto_sign_PUBLICKEYBYTES == 32
crypto_sign_BYTES == 64

\* a byte is 0..255
ByteMod == 256

SeedLen == crypto_sign_SECRETKEYBYTES - crypto_sign_PUBLICKEYBYTES

\* ------------------------------------------------------------ byte helpers
\* make([]byte, n): a zero-initialised slice of length n
Zeros(n) == [j \in 1..n |-> 0]

\* flip the lowest bit of byte i of b
FlipBit(b, i) == [b EXCEPT ![i] = IF b[i] % 2 = 0 THEN b[i] + 1 ELSE b[i] - 1]

\* ------------------------------------------------ the library's primitives
\* public key of a seed (stand-in for the scalar multiplication)
PkOfSeed(seed) == [j \in 1..crypto_sign_PUBLICKEYBYTES |-> (seed[j] * 7 + 3) % ByteMod]

\* the seed a public key belongs to (7 * 183 = 1 mod 256)
SeedOfPk(pk) == [j \in 1..SeedLen |-> ((pk[j] + ByteMod - 3) * 183) % ByteMod]

\* the i-th seed the generator can draw
Seed(i) == [j \in 1..SeedLen |-> (i * 16 + j) % ByteMod]

\* a secret key as libsodium lays it out: seed followed by public key
SecretKey(i) == Seed(i) \o PkOfSeed(Seed(i))

\* the secret keys crypto_sign_keypair can produce
GenKeys == {SecretKey(i) : i \in 1..NumKeys}

\* stand-in message digest
RECURSIVE DigestSum(_, _)
DigestSum(m, i) == IF i > Len(m) THEN 0 ELSE m[i] * (2 * i + 1) + DigestSum(m, i + 1)

Digest(m) == (Len(m) * 31 + DigestSum(m, 1)) % ByteMod

\* crypto_sign_keypair(pk, sk): fills both buffers and returns 0, or
\* reports a non-zero status and leaves the buffers as they were
crypto_sign_keypair(pkbuf, skbuf) ==
    {[rv |-> 0, sk |-> k, pk |-> SubSeq(k, SeedLen + 1, crypto_sign_SECRETKEYBYTES)] : k \in GenKeys}
      \cup {[rv |-> -1, sk |-> skbuf, pk |-> pkbuf]}

\* crypto_sign_ed25519_sk_to_pk(pk, sk): copies the public half of sk
crypto_sign_ed25519_sk_to_pk(sk) == SubSeq(sk, SeedLen + 1, crypto_sign_SECRETKEYBYTES)

\* crypto_sign_detached(sig, NULL, m, mlen, sk): the signature R ++ S
crypto_sign_detached(m, sk) ==
    LET seed == SubSeq(sk, 1, SeedLen)
        pk == SubSeq(sk, SeedLen + 1, crypto_sign_SECRETKEYBYTES)
        R == [j \in 1..32 |-> (seed[j] * 5 + Digest(m) + j) % ByteMod]
        S == [j \in 1..32 |-> (R[j] + Digest(m) * pk[j] + seed[j]) % ByteMod]
    IN R \o S

\* crypto_sign_verify_detached(sig, m, mlen, pk): 0 if valid, -1 if not
crypto_sign_verify_detached(sig, m, pk) ==
    IF sig = crypto_sign_detached(m, SeedOfPk(pk) \o pk) THEN 0 ELSE -1

\* sodium_init(): 0 on success, 1 if already initialised, -1 on failure
sodium_init == {0, 1, -1}

\* ------------------------------------------------------- memory behaviour
\* bytes that may lie behind the end of a slice
Garbage == {0, 255}

\* The library reads n bytes through a pointer to the first element of the
\* slice b (b is not empty).  A longer slice is read in part; behind a
\* shorter one the read leaves the slice: it faults, or yields whatever
\* lies there.
CRead(b, n) ==
    IF Len(b) >= n
    THEN {[fault |-> FALSE, bytes |-> SubSeq(b, 1, n)]}
    ELSE {[fault |-> FALSE, bytes |-> b \o [j \in 1..(n - Len(b)) |-> g]] : g \in Garbage}
           \cup {[fault |-> TRUE, bytes |-> <<>>]}

\* ------------------------------------------------------------ call results
NoResult == [kind |-> "none", val |-> <<>>, msg |-> ""]
Bytes(b) == [kind |-> "bytes", val |-> b, msg |-> ""]
Nil == [kind |-> "nil", val |-> <<>>, msg |-> ""]
Error(s) == [kind |-> "error", val |-> <<>>, msg |-> s]
Panic(s) == [kind |-> "panic", val |-> <<>>, msg |-> s]
\* Go's runtime panic for b[0] on an empty slice
IndexPanic == Panic("index out of range [0] with length 0")
\* the process is killed by a memory fault inside the library
Fault == [kind |-> "fault", val |-> <<>>, msg |-> "SIGSEGV"]

\* ------------------------------------------------------------------ state
VARIABLES
    sodium,                 \* "uninit", "ok" or "failed": state of the library
    EdDSAPublicLength,
    EdDSAPrivateLength,
    EdDSASignatureLength,
    pc,                     \* per caller: "idle", "allocated", "checked", "called", "done"
    op,                     \* per caller: the operation in progress
    key,                    \* per caller: the receiver slice (priv or publ)
    message,                \* per caller: the message slice
    signature,              \* per caller: Verify's signature slice
    passed,                 \* per caller: the arguments as they were at entry
    made,                   \* buffers returned by the first make of a call
    made2,                  \* buffers returned by GenerateKey's second make
    rv,                     \* per caller: status returned by the primitive
    keyRead,                \* per caller: key bytes the primitive read
    result                  \* per caller: what the call returned

lengths == <<EdDSAPublicLength, EdDSAPrivateLength, EdDSASignatureLength>>
globals == <<sodium, EdDSAPublicLength, EdDSAPrivateLength, EdDSASignatureLength>>
args == <<key, message, signature, passed>>
vars == <<sodium, EdDSAPublicLength, EdDSAPrivateLength, EdDSASignatureLength,
          pc, op, key, message, signature, passed, made, made2, rv, keyRead, result>>

Callers == DOMAIN pc

\* one buffer kept at package level and reused by every call
OutBufShared(c) == 1

\* the buffer a call's make returns: fresh, so private to the call
OutBuf(c) == c

InitFor(cs) ==
    /\ sodium = "uninit"
    /\ EdDSAPublicLength = 0
    /\ EdDSAPrivateLength = 0
    /\ EdDSASignatureLength = 0
    /\ pc = [c \in cs |-> "idle"]
    /\ op = [c \in cs |-> "none"]
    /\ key = [c \in cs |-> <<>>]
    /\ message = [c \in cs |-> <<>>]
    /\ signature = [c \in cs |-> <<>>]
    /\ passed = [c \in cs |-> [key |-> <<>>, message |-> <<>>, signature |-> <<>>]]
    /\ made = [c \in cs |-> <<>>]
    /\ made2 = [c \in cs |-> <<>>]
    /\ rv = [c \in cs |-> 0]
    /\ keyRead = [c \in cs |-> <<>>]
    /\ result = [c \in cs |-> NoResult]

\* package initialisation with the private and public lengths exchanged
initSwapped ==
    /\ sodium = "uninit"
    /\ \E r \in sodium_init : sodium' = IF r = -1 THEN "failed" ELSE "ok"
    /\ EdDSAPrivateLength' = crypto_sign_PUBLICKEYBYTES
    /\ EdDSAPublicLength' = crypto_sign_SECRETKEYBYTES
    /\ EdDSASignatureLength' = crypto_sign_BYTES
    /\ UNCHANGED <<pc, op, key, message, signature, passed, made, made2, rv, keyRead, result>>

\* package initialisation: the status of sodium_init is dropped
init ==
    /\ sodium = "uninit"
    /\ \E r \in sodium_init : sodium' = IF r = -1 THEN "failed" ELSE "ok"
    /\ EdDSAPrivateLength' = crypto_sign_SECRETKEYBYTES
    /\ EdDSAPublicLength' = crypto_sign_PUBLICKEYBYTES
    /\ EdDSASignatureLength' = crypto_sign_BYTES
    /\ UNCHANGED <<pc, op, key, message, signature, passed, made, made2, rv, keyRead, result>>

\* a caller can enter an operation once package initialisation has run
CanCall(c) == sodium # "uninit" /\ pc[c] \in {"idle", "done"}

\* entry of caller c into operation o with receiver k, message m, signature s
Enter(c, o, k, m, s) ==
    /\ op' = [op EXCEPT ![c] = o]
    /\ key' = [key EXCEPT ![c] = k]
    /\ message' = [message EXCEPT ![c] = m]
    /\ signature' = [signature EXCEPT ![c] = s]
    /\ passed' = [passed EXCEPT ![c] = [key |-> k, message |-> m, signature |-> s]]
    /\ rv' = [rv EXCEPT ![c] = 0]
    /\ keyRead' = [keyRead EXCEPT ![c] = <<>>]

\* the call of caller c ends with result r; its local buffers go out of scope
Finish(c, r) ==
    /\ result' = [result EXCEPT ![c] = r]
    /\ pc' = [pc EXCEPT ![c] = "done"]
    /\ made' = [made EXCEPT ![OutBuf(c)] = <<>>]
    /\ made2' = [made2 EXCEPT ![OutBuf(c)] = <<>>]

\* --------------------------------------------------------- EdDSAGenerateKey
GenerateKeyAlloc(c) ==
    /\ CanCall(c)
    /\ Enter(c, "GenerateKey", <<>>, <<>>, <<>>)
    /\ made' = [made EXCEPT ![OutBuf(c)] = Zeros(EdDSAPrivateLength)]
    /\ made2' = [made2 EXCEPT ![OutBuf(c)] = Zeros(EdDSAPublicLength)]
    /\ pc' = [pc EXCEPT ![c] = "allocated"]
    /\ result' = [result EXCEPT ![c] = NoResult]
    /\ UNCHANGED globals

GenerateKeyCall(c) ==
    /\ pc[c] = "allocated" /\ op[c] = "GenerateKey"
    /\ IF Len(made2[OutBuf(c)]) = 0 \/ Len(made[OutBuf(c)]) = 0
       THEN /\ Finish(c, IndexPanic)
            /\ UNCHANGED rv
       ELSE \E o \in crypto_sign_keypair(made2[OutBuf(c)], made[OutBuf(c)]) :
                /\ made' = [made EXCEPT ![OutBuf(c)] = o.sk]
                /\ made2' = [made2 EXCEPT ![OutBuf(c)] = o.pk]
                /\ rv' = [rv EXCEPT ![c] = o.rv]
                /\ pc' = [pc EXCEPT ![c] = "called"]
                /\ UNCHANGED result
    /\ UNCHANGED <<globals, op, args, keyRead>>

\* the return without the test of the status
GenerateKeyReturnUnchecked(c) ==
    /\ pc[c] = "called" /\ op[c] = "GenerateKey"
    /\ Finish(c, Bytes(made[OutBuf(c)]))
    /\ UNCHANGED <<globals, op, args, rv, keyRead>>

GenerateKeyReturn(c) ==
    /\ pc[c] = "called" /\ op[c] = "GenerateKey"
    /\ IF rv[c] # 0
       THEN Finish(c, Panic("crypto_sign_keypair returned non-zero"))
       ELSE Finish(c, Bytes(made[OutBuf(c)]))
    /\ UNCHANGED <<globals, op, args, rv, keyRead>>

\* ------------------------------------------------- EdDSAPrivate.PublicKey
PublicKeyAlloc(c, priv) ==
    /\ CanCall(c)
    /\ Enter(c, "PublicKey", priv, <<>>, <<>>)
    /\ made' = [made EXCEPT ![OutBuf(c)] = Zeros(EdDSAPublicLength)]
    /\ pc' = [pc EXCEPT ![c] = "allocated"]
    /\ result' = [result EXCEPT ![c] = NoResult]
    /\ UNCHANGED <<globals, made2>>

PublicKeyCall(c) ==
    /\ pc[c] = "allocated" /\ op[c] = "PublicKey"
    /\ IF Len(made[OutBuf(c)]) = 0 \/ Len(key[c]) = 0
       THEN /\ Finish(c, IndexPanic)
            /\ UNCHANGED <<rv, keyRead>>
       ELSE \E rd \in CRead(key[c], crypto_sign_SECRETKEYBYTES) :
                IF rd.fault
                THEN /\ Finish(c, Fault)
                     /\ UNCHANGED <<rv, keyRead>>
                ELSE /\ made' = [made EXCEPT ![OutBuf(c)] = crypto_sign_ed25519_sk_to_pk(rd.bytes)]
                     /\ UNCHANGED made2
                     /\ rv' = [rv EXCEPT ![c] = 0]
                     /\ keyRead' = [keyRead EXCEPT ![c] = rd.bytes]
                     /\ pc' = [pc EXCEPT ![c] = "called"]
                     /\ UNCHANGED result
    /\ UNCHANGED <<globals, op, args>>

PublicKeyReturn(c) ==
    /\ pc[c] = "called" /\ op[c] = "PublicKey"
    /\ IF rv[c] # 0
       THEN Finish(c, Panic("crypto_sign_ed25519_sk_to_pk returned non-zero"))
       ELSE Finish(c, Bytes(made[OutBuf(c)]))
    /\ UNCHANGED <<globals, op, args, rv, keyRead>>

\* ------------------------------------------------------ EdDSAPrivate.Sign
SignAlloc(c, priv, msg) ==
    /\ CanCall(c)
    /\ Enter(c, "Sign", priv, msg, <<>>)
    /\ made' = [made EXCEPT ![OutBuf(c)] = Zeros(EdDSASignatureLength)]
    /\ pc' = [pc EXCEPT ![c] = "allocated"]
    /\ result' = [result EXCEPT ![c] = NoResult]
    /\ UNCHANGED <<globals, made2>>

SignCall(c) ==
    /\ pc[c] = "allocated" /\ op[c] = "Sign"
    /\ IF Len(made[OutBuf(c)]) = 0 \/ Len(message[c]) = 0 \/ Len(key[c]) = 0
       THEN /\ Finish(c, IndexPanic)
            /\ UNCHANGED <<rv, keyRead>>
       ELSE \E rd \in CRead(key[c], crypto_sign_SECRETKEYBYTES) :
                IF rd.fault
                THEN /\ Finish(c, Fault)
                     /\ UNCHANGED <<rv, keyRead>>
                ELSE /\ made' = [made EXCEPT ![OutBuf(c)] = crypto_sign_detached(message[c], rd.bytes)]
                     /\ UNCHANGED made2
                     /\ rv' = [rv EXCEPT ![c] = 0]
                     /\ keyRead' = [keyRead EXCEPT ![c] = rd.bytes]
                     /\ pc' = [pc EXCEPT ![c] = "called"]
                     /\ UNCHANGED result
    /\ UNCHANGED <<globals, op, args>>

SignReturn(c) ==
    /\ pc[c] = "called" /\ op[c] = "Sign"
    /\ IF rv[c] # 0
       THEN Finish(c, Panic("crypto_sign_detached returned non-zero"))
       ELSE Finish(c, Bytes(made[OutBuf(c)]))
    /\ UNCHANGED <<globals, op, args, rv, keyRead>>

\* ------------------------------------------------------ EdDSAPublic.Verify
VerifyCheck(c, publ, msg, sig) ==
    /\ CanCall(c)
    /\ Enter(c, "Verify", publ, msg, sig)
    /\ IF Len(sig) # EdDSASignatureLength
       THEN Finish(c, Panic("Signature passed has the wrong length"))
       ELSE /\ pc' = [pc EXCEPT ![c] = "checked"]
            /\ result' = [result EXCEPT ![c] = NoResult]
            /\ UNCHANGED <<made, made2>>
    /\ UNCHANGED globals

VerifyCall(c) ==
    /\ pc[c] = "checked" /\ op[c] = "Verify"
    /\ IF Len(signature[c]) = 0 \/ Len(message[c]) = 0 \/ Len(key[c]) = 0
       THEN /\ Finish(c, IndexPanic)
            /\ UNCHANGED <<rv, keyRead>>
       ELSE \E rd \in CRead(key[c], crypto_sign_PUBLICKEYBYTES) :
                IF rd.fault
                THEN /\ Finish(c, Fault)
                     /\ UNCHANGED <<rv, keyRead>>
                ELSE /\ rv' = [rv EXCEPT ![c] =
                                 crypto_sign_verify_detached(
                                     SubSeq(signature[c], 1, crypto_sign_BYTES),
                                     message[c], rd.bytes)]
                     /\ keyRead' = [keyRead EXCEPT ![c] = rd.bytes]
                     /\ pc' = [pc EXCEPT ![c] = "called"]
                     /\ UNCHANGED <<result, made, made2>>
    /\ UNCHANGED <<globals, op, args>>

VerifyReturn(c) ==
    /\ pc[c] = "called" /\ op[c] = "Verify"
    /\ IF rv[c] # 0
       THEN Finish(c, Error("EdDSA signature is forged!"))
       ELSE Finish(c, Nil)
    /\ UNCHANGED <<globals, op, args, rv, keyRead>>

\* ----------------------------------------------------- the callers' inputs
\* bytes of the messages: 'h' and 'i', one bit apart
MsgBytes == {104, 105}

RECURSIVE SeqsUpTo(_)
SeqsUpTo(n) ==
    IF n = 0 THEN {<<>>}
    ELSE LET shorter == SeqsUpTo(n - 1)
         IN shorter \cup {Append(m, b) : m \in {x \in shorter : Len(x) = n - 1}, b \in MsgBytes}

Messages == SeqsUpTo(MaxMsgLen)

\* a slice one byte shorter, one byte longer
Shorter(b) == SubSeq(b, 1, Len(b) - 1)
Longer(b) == Append(b, 0)

PublicKeys == {crypto_sign_ed25519_sk_to_pk(k) : k \in GenKeys}
Signatures == {crypto_sign_detached(m, k) : m \in Messages, k \in GenKeys}

\* private keys handed to PublicKey and Sign: well-formed, empty, short, long
PrivInputs == GenKeys \cup {<<>>, Shorter(SecretKey(1)), Longer(SecretKey(1))}
\* public keys handed to Verify
PublInputs == PublicKeys \cup {<<>>, Shorter(PkOfSeed(Seed(1))), Longer(PkOfSeed(Seed(1)))}
\* signatures handed to Verify: genuine, one bit flipped, empty, short, long
SigInputs ==
    Signatures \cup {FlipBit(crypto_sign_detached(<<104>>, SecretKey(1)), 1)}
      \cup {<<>>, Shorter(crypto_sign_detached(<<104>>, SecretKey(1))),
                  Longer(crypto_sign_detached(<<104>>, SecretKey(1)))}

\* inputs of the concurrent callers: the same key and message from several
\* callers, and a second key
ConcPrivInputs == {SecretKey(1), SecretKey(2)}
ConcPublInputs == {PkOfSeed(Seed(1)), PkOfSeed(Seed(2))}
ConcMessages == {<<>>, <<104>>}
ConcSigInputs == {crypto_sign_detached(<<104>>, SecretKey(1))}

NextWith(privs, publs, msgs, sigs) ==
    \/ init
    \/ \E c \in Callers : GenerateKeyAlloc(c)
    \/ \E c \in Callers : GenerateKeyCall(c)
    \/ \E c \in Callers : GenerateKeyReturn(c)
    \/ \E c \in Callers, priv \in privs : PublicKeyAlloc(c, priv)
    \/ \E c \in Callers : PublicKeyCall(c)
    \/ \E c \in Callers : PublicKeyReturn(c)
    \/ \E c \in Callers, priv \in privs, msg \in msgs : SignAlloc(c, priv, msg)
    \/ \E c \in Callers : SignCall(c)
    \/ \E c \in Callers : SignReturn(c)
    \/ \E c \in Callers, publ \in publs, msg \in msgs, sig \in sigs : VerifyCheck(c, publ, msg, sig)
    \/ \E c \in Callers : VerifyCall(c)
    \/ \E c \in Callers : VerifyReturn(c)

\* one caller, the full range of inputs
Init == InitFor({1})
Next == NextWith(PrivInputs, PublInputs, Messages, SigInputs)
Spec == Init /\ [][Next]_vars

\* several callers at once
ConcInit == InitFor(1..NumCallers)
ConcNext == NextWith(ConcPrivInputs, ConcPublInputs, ConcMessages, ConcSigInputs)
ConcSpec == ConcInit /\ [][ConcNext]_vars

\* ================================================================= claims
Done(c, o) == pc[c] = "done" /\ op[c] = o

\* the public key that belongs to secret key k, the signature k gives m
PublicKeyOf(k) == crypto_sign_ed25519_sk_to_pk(k)
SignatureOf(k, m) == crypto_sign_detached(m, k)

\* C1: with the library initialised, Verify called with a signature whose length is not SIGNATURE_LEN
\* (also a zero-length one) returns a verification failure to the caller;
\* it does not panic or fault.
C1_WrongLengthSignatureFails ==
    \A c \in Callers :
        sodium = "ok" /\ Done(c, "Verify") /\ Len(signature[c]) # crypto_sign_BYTES
            => result[c].kind = "error"

\* C2: with the library initialised, for every generated private key k and every message m, each stage of
\* Verify(DerivePublicKey(k), m, Sign(k, m)) succeeds: PublicKey and Sign
\* return bytes, and Verify of the key's signature of m under the key's
\* public key returns nil.
C2_SignThenVerifySucceeds ==
    \A c \in Callers : sodium = "ok" =>
        /\ Done(c, "PublicKey") /\ key[c] \in GenKeys
             => result[c] = Bytes(PublicKeyOf(key[c]))
        /\ Done(c, "Sign") /\ key[c] \in GenKeys
             => result[c] = Bytes(SignatureOf(key[c], message[c]))
        /\ Done(c, "Verify")
             => \A k \in GenKeys :
                    key[c] = PublicKeyOf(k) /\ signature[c] = SignatureOf(k, message[c])
                        => result[c] = Nil

\* C3: with the library initialised, the empty message is a valid input: Sign of it under a well-formed
\* key returns a signature of length SIGNATURE_LEN, and Verify of that
\* signature over the empty message under the key's public key returns nil.
C3_EmptyMessageSignsAndVerifies ==
    \A c \in Callers : sodium = "ok" =>
        /\ Done(c, "Sign") /\ key[c] \in GenKeys /\ message[c] = <<>>
             => result[c].kind = "bytes" /\ Len(result[c].val) = crypto_sign_BYTES
        /\ Done(c, "Verify") /\ message[c] = <<>>
             => \A k \in GenKeys :
                    key[c] = PublicKeyOf(k) /\ signature[c] = SignatureOf(k, <<>>)
                        => result[c] = Nil

\* C4: with the library initialised, for a well-formed public key and a signature of the right length,
\* Verify returns nil exactly if the signature is the one Sign gives the
\* message under the private key of that public key, and otherwise returns
\* the verification error as an ordinary value: never a panic or a fault.
C4_VerifySucceedsIffGenuine ==
    \A c \in Callers :
        sodium = "ok" /\ Done(c, "Verify") /\ key[c] \in PublicKeys
          /\ Len(signature[c]) = crypto_sign_BYTES
            => /\ result[c].kind \in {"nil", "error"}
               /\ result[c].kind = "nil"
                    <=> \E k \in GenKeys :
                            key[c] = PublicKeyOf(k) /\ signature[c] = SignatureOf(k, message[c])

\* C5: with the library initialised, Sign and PublicKey called with a private key whose length is not
\* PRIVATE_KEY_LEN end in a panic, and the primitive never reads the key.
C5_MalformedPrivateKeyRejected ==
    \A c \in Callers :
        sodium = "ok" /\ pc[c] = "done" /\ op[c] \in {"Sign", "PublicKey"}
          /\ Len(key[c]) # crypto_sign_SECRETKEYBYTES
            => result[c].kind = "panic" /\ keyRead[c] = <<>>

\* C6: whenever an operation executes, the library's initialisation has
\* completed successfully.
C6_OperationsOnlyAfterSuccessfulInit ==
    \A c \in Callers : pc[c] # "idle" => sodium = "ok"

\* C7: GenerateKey returns a key of length PRIVATE_KEY_LEN that a successful
\* key-pair generation filled, or panics when the library reported a
\* non-zero status; it never returns the zeroed buffer.
C7_GenerateKeyNeverReturnsUnfilledKey ==
    \A c \in Callers :
        Done(c, "GenerateKey")
            => \/ /\ rv[c] = 0
                  /\ result[c].kind = "bytes"
                  /\ Len(result[c].val) = crypto_sign_SECRETKEYBYTES
                  /\ result[c].val \in GenKeys
                  /\ result[c].val # Zeros(crypto_sign_SECRETKEYBYTES)
               \/ /\ rv[c] # 0
                  /\ result[c].kind = "panic"

\* C7 witness: a key generation the library failed has ended in a panic
C7_Witness ==
    \E c \in Callers : Done(c, "GenerateKey") /\ rv[c] # 0 /\ result[c].kind = "panic"

\* C8: after initialisation the three lengths are positive and are the
\* library's constants in every state, whatever calls were made, and every
\* key or signature an operation returns has the corresponding length.
C8_LengthsFixedAndRespected ==
    sodium # "uninit"
        => /\ EdDSAPrivateLength = crypto_sign_SECRETKEYBYTES /\ EdDSAPrivateLength > 0
           /\ EdDSAPublicLength = crypto_sign_PUBLICKEYBYTES /\ EdDSAPublicLength > 0
           /\ EdDSASignatureLength = crypto_sign_BYTES /\ EdDSASignatureLength > 0
           /\ \A c \in Callers :
                  pc[c] = "done" /\ result[c].kind = "bytes"
                      => Len(result[c].val) =
                             CASE op[c] = "GenerateKey" -> EdDSAPrivateLength
                               [] op[c] = "PublicKey" -> EdDSAPublicLength
                               [] op[c] = "Sign" -> EdDSASignatureLength

\* C8 witness: after calls of all kinds, a Sign has returned a signature
C8_Witness ==
    \E c \in Callers :
        /\ Done(c, "Sign") /\ result[c].kind = "bytes"
        /\ Len(result[c].val) = crypto_sign_BYTES
        /\ Len(key[c]) # crypto_sign_SECRETKEYBYTES

\* what a call returns when it runs alone
Alone(o, k, m, s) ==
    CASE o = "GenerateKey" ->
           {Bytes(g) : g \in GenKeys} \cup {Panic("crypto_sign_keypair returned non-zero")}
      [] o = "PublicKey" ->
           IF Len(k) = 0 THEN {IndexPanic}
           ELSE {IF rd.fault THEN Fault ELSE Bytes(crypto_sign_ed25519_sk_to_pk(rd.bytes)) :
                    rd \in CRead(k, crypto_sign_SECRETKEYBYTES)}
      [] o = "Sign" ->
           IF Len(m) = 0 \/ Len(k) = 0 THEN {IndexPanic}
           ELSE {IF rd.fault THEN Fault ELSE Bytes(crypto_sign_detached(m, rd.bytes)) :
                    rd \in CRead(k, crypto_sign_SECRETKEYBYTES)}
      [] o = "Verify" ->
           IF Len(s) # crypto_sign_BYTES THEN {Panic("Signature passed has the wrong length")}
           ELSE IF Len(m) = 0 \/ Len(k) = 0 THEN {IndexPanic}
           ELSE {IF rd.fault THEN Fault
                 ELSE IF crypto_sign_verify_detached(s, m, rd.bytes) = 0 THEN Nil
                 ELSE Error("EdDSA signature is forged!") :
                    rd \in CRead(k, crypto_sign_PUBLICKEYBYTES)}

\* C9: under every interleaving of the callers, a call that has returned
\* returned what it returns when run alone, and no call has written the
\* length variables or the key, message or signature it was passed.
C9_CallsIndependent ==
    /\ sodium # "uninit"
         => lengths = <<crypto_sign_PUBLICKEYBYTES, crypto_sign_SECRETKEYBYTES, crypto_sign_BYTES>>
    /\ \A c \in Callers :
         /\ pc[c] # "idle"
              => /\ key[c] = passed[c].key
                 /\ message[c] = passed[c].message
                 /\ signature[c] = passed[c].signature
         /\ pc[c] = "done"
              => result[c] \in Alone(op[c], passed[c].key, passed[c].message, passed[c].signature)

\* C9 witness: one caller's Sign has returned its signature while another
\* caller is inside the library signing with the same key
C9_Witness ==
    \E c1 \in Callers, c2 \in Callers :
        /\ c1 # c2
        /\ Done(c1, "Sign") /\ result[c1] = Bytes(SignatureOf(key[c1], message[c1]))
        /\ op[c2] = "Sign" /\ pc[c2] = "called" /\ key[c2] = key[c1]

\* C10: with the library initialised, Verify called with a public key whose length is not PUBLIC_KEY_LEN
\* never returns nil: it returns the verification error or panics, and the
\* verification primitive never reads the key.
C10_MalformedPublicKeyRejected ==
    \A c \in Callers :
        sodium = "ok" /\ Done(c, "Verify") /\ Len(key[c]) # crypto_sign_PUBLICKEYBYTES
            => result[c].kind \in {"error", "panic"} /\ keyRead[c] = <<>>
====
